---- MODULE Spec2Model ----
(***************************************************************************)
(* Tenant infrastructure control plane (backend/tenants).                  *)
(*                                                                         *)
(* The persisted Tenant row, the Render platform and the Celery jobs       *)
(* provision_tenant_infrastructure, cleanup_tenant_infrastructure and      *)
(* check_tenant_service_status of tasks.py, as one state machine.  Every   *)
(* database read, database write and platform call of a job is one step,   *)
(* so the jobs interleave exactly where the workers can.                   *)
(*                                                                         *)
(* Spec runs a provisioning job delivered twice against one deprovisioning *)
(* job; TeardownSpec runs a deprovisioning job delivered twice and a       *)
(* status check against one provisioning job; CustomizeSpec runs          *)
(* customize_blueprint_for_tenant on whole blueprints; CreateSpec runs     *)
(* TenantViewSet.create and the provisioning job it hands over.            *)
(*                                                                         *)
(* Strings are sequences of one-character strings, so that the suffixing   *)
(* of customize_blueprint_for_tenant and the str.replace of the service id *)
(* extraction are computed, not assumed.                                   *)
(***************************************************************************)
EXTENDS Integers, Sequences, FiniteSets, Bags, TLC

VARIABLES
    row,              \* the Tenant row of the one tenant id, or NoRow
    slug,             \* Tenant.slug of that tenant (immutable)
    blueprint,        \* the base template: the sequence of its service names
    apiKey,           \* RENDER_API_KEY is set in the workers' environment
    templateFile,     \* base_crm_render.yaml: "ok", "missing" or "malformed"
    live,             \* platform: resource ids that exist on Render
    deployments,      \* platform: number of blueprints accepted so far
    pc,               \* per job: where the job is
    retries,          \* per provisioning job: self.request.retries
    countdown,        \* per provisioning job: countdown of the last retry scheduled
    tenant,           \* per job: the Tenant instance the running task body holds
    deployment_data,  \* per provisioning job: the response of deploy_blueprint
    exc,              \* per job: the exception being handled or propagated
    deployCalls,      \* per provisioning job: deploy_blueprint calls made
    todo,             \* per cleanup or check job: the (name, id) pairs still to iterate
    deleted_count,    \* per cleanup job: deleted_count of _delete_render_services
    deleteLog,        \* per cleanup job: bag of the (id, HTTP status) of its delete calls
    service_statuses, \* per check job: service_statuses of check_tenant_service_status
    queried,          \* per check job: the ids it has passed to get_service_status
    template,         \* customizer: the blueprint object handed to every customize call
    results,          \* customizer: (tenant_slug, custom_plugin_repo, returned blueprint)
                      \*             of the calls made so far
    view              \* TenantViewSet.create: where the request is, and the row its
                      \*             open transaction has inserted

vars == <<template, results, view, row, slug, blueprint, apiKey, templateFile, live, deployments, pc,
          retries, countdown, tenant, deployment_data, exc, deployCalls, todo,
          deleted_count, deleteLog, service_statuses, queried>>

-----------------------------------------------------------------------------
(* Bounds of the model *)

\* successful deployments the platform accepts in one behaviour
MaxDeployments == 2

(* Program constants *)

\* @shared_task(bind=True, max_retries=3)
max_retries == 3

\* countdown=60 * (2 ** self.request.retries)
countdown_base == 60

ProvJobs == {"p1", "p2"}
CleanupJobs == {"d1", "d2"}
CheckJobs == {"c1"}
Jobs == ProvJobs \cup CleanupJobs \cup CheckJobs

NoRow == [status |-> "NONE", render_service_ids |-> {}]
NoData == << >>
\* no blueprint object: the customizer is not being exercised
NoTemplate == [services |-> << >>, databases |-> << >>]
\* no creation request is being served
NoRequest == [pc |-> "none", inserted |-> NoRow]

\* Tenant.TenantStatus
TenantStatus == {"PROVISIONING", "ACTIVE", "SUSPENDED", "ERROR"}

\* Service names of the base template and tenant slugs the model draws from.
NamePool == {<<"a">>, <<"b">>, <<"a", "-", "b">>}
SlugPool == {<<"a">>, <<"b">>}
\* two-service templates
Blueprints == {bp \in NamePool \X NamePool : bp[1] = <<"a">> /\ bp[2] # <<"a">>}

-----------------------------------------------------------------------------
(* Pure functions *)

RECURSIVE Pow2(_)
Pow2(n) == IF n = 0 THEN 1 ELSE 2 * Pow2(n - 1)

\* s starts with the string old
StartsWith(s, old) ==
    /\ Len(old) <= Len(s)
    /\ SubSeq(s, 1, Len(old)) = old

\* str.endswith(suffix)
EndsWith(s, suffix) ==
    /\ Len(suffix) <= Len(s)
    /\ SubSeq(s, Len(s) - Len(suffix) + 1, Len(s)) = suffix

\* Python's str.replace(old, ""): every non-overlapping occurrence of old,
\* found left to right, is removed (old is never empty here).
RECURSIVE str_replace(_, _)
str_replace(s, old) ==
    IF s = << >> THEN << >>
    ELSE IF StartsWith(s, old)
         THEN str_replace(SubSeq(s, Len(old) + 1, Len(s)), old)
         ELSE <<Head(s)>> \o str_replace(Tail(s), old)

\* f"{service['name']}-{tenant_slug}"
SuffixedName(name, tenant_slug) == name \o <<"-">> \o tenant_slug

\* customize_blueprint_for_tenant, as far as provisioning observes it: the
\* names of the services submitted to the platform.
customize_blueprint_for_tenant(bp, tenant_slug) ==
    [i \in 1..Len(bp) |-> SuffixedName(bp[i], tenant_slug)]

\* dict assignment service_ids[key] = id on a dict kept as a set of pairs
DictSet(d, key, id) == {p \in d : p[1] # key} \cup {<<key, id>>}

\* original_name = service_name.replace(f"-{tenant.slug}", "")
original_name(service_name, tenant_slug) ==
    str_replace(service_name, <<"-">> \o tenant_slug)

\* The extraction loop of provision_tenant_infrastructure over the first k
\* entries of deployment_data['services'].
RECURSIVE ExtractServiceIds(_, _, _)
ExtractServiceIds(data, k, tenant_slug) ==
    IF k = 0 THEN {}
    ELSE LET before == ExtractServiceIds(data, k - 1, tenant_slug)
             service_name == data[k].name
             service_id == data[k].id
         IN IF service_name # << >> /\ service_id # 0
            THEN DictSet(before, original_name(service_name, tenant_slug), service_id)
            ELSE before

service_ids_of(data, tenant_slug) == ExtractServiceIds(data, Len(data), tenant_slug)

\* The platform's response to the n-th accepted blueprint: one entry per
\* submitted service, its name as submitted and a fresh resource id.
DeploymentResult(customized, n) ==
    [i \in 1..Len(customized) |->
        [name |-> customized[i], id |-> (n - 1) * Len(customized) + i]]

ResultIds(data) == {data[i].id : i \in 1..Len(data)}

\* The platform's answer to DELETE /services/{id}: 204 when it deletes the
\* resource, 404 when it holds no such resource, 500 for any failure.
DeleteResponses(id) == IF id \in live THEN {204, 500} ELSE {404, 500}

\* A faulty client: a 404 answer raises like any other error status.
delete_service_404Raises(status_code) ==
    IF status_code >= 400 THEN "raise" ELSE "True"

\* RenderAPIClient.delete_service: 404 returns True, raise_for_status raises
\* for every other error status, otherwise True
delete_service(status_code) ==
    IF status_code = 404 THEN "True"
    ELSE IF status_code >= 400 THEN "raise"
    ELSE "True"

\* The platform's answer to GET /services/{id}
StatusResponses(id) == IF id \in live THEN {200, 500} ELSE {404, 500}

\* RenderAPIClient.get_service_status: the response body, or None when the
\* request raised
get_service_status(status_code) ==
    IF status_code >= 400 THEN "None" ELSE "live"

-----------------------------------------------------------------------------
(* Initial state: the tenant has been created (status PROVISIONING, no     *)
(* service ids), no job has been delivered yet.                            *)

\* no job has been delivered, nothing exists on the platform
NothingRun ==
    /\ live = {}
    /\ deployments = 0
    /\ pc = [j \in Jobs |-> "idle"]
    /\ retries = [j \in ProvJobs |-> 0]
    /\ countdown = [j \in ProvJobs |-> 0]
    /\ tenant = [j \in Jobs |-> NoRow]
    /\ deployment_data = [j \in ProvJobs |-> NoData]
    /\ exc = [j \in Jobs |-> "none"]
    /\ deployCalls = [j \in ProvJobs |-> 0]
    /\ todo = [j \in CleanupJobs \cup CheckJobs |-> {}]
    /\ deleted_count = [j \in CleanupJobs |-> 0]
    /\ deleteLog = [j \in CleanupJobs |-> EmptyBag]
    /\ service_statuses = [j \in CheckJobs |-> {}]
    /\ queried = [j \in CheckJobs |-> {}]

Init ==
    /\ row = [status |-> "PROVISIONING", render_service_ids |-> {}]
    /\ template = NoTemplate
    /\ results = << >>
    /\ view = NoRequest
    /\ slug \in SlugPool
    /\ blueprint \in Blueprints
    /\ apiKey \in BOOLEAN
    /\ templateFile \in {"ok", "missing", "malformed"}
    /\ (~apiKey => templateFile = "ok")
    /\ NothingRun

-----------------------------------------------------------------------------
(* The queue delivers a job *)

Deliver(j) ==
    /\ pc[j] = "idle"
    /\ pc' = [pc EXCEPT ![j] = "queued"]
    /\ UNCHANGED <<template, results, view, row, slug, blueprint, apiKey, templateFile, live, deployments,
                   retries, countdown, tenant, deployment_data, exc, deployCalls, todo,
                   deleted_count, deleteLog, service_statuses, queried>>

\* A faulty entry point: the missing tenant is logged and the task returns.
TenantNotFound_Swallowed(j) ==
    /\ pc' = [pc EXCEPT ![j] = "done"]
    /\ exc' = [exc EXCEPT ![j] = "none"]

\* except Tenant.DoesNotExist: logger.error(...); raise
TenantNotFound(j) ==
    /\ pc' = [pc EXCEPT ![j] = "failed"]
    /\ exc' = [exc EXCEPT ![j] = "DoesNotExist"]

-----------------------------------------------------------------------------
(* provision_tenant_infrastructure *)

\* A faulty limit: the comparison is off by one.
RetryAllowed_OneMore(r) == r <= max_retries

\* self.retry(exc=exc, countdown=...): Celery schedules the task again with
\* request.retries + 1 unless that exceeds max_retries, in which case the
\* original exception is raised.
RetryAllowed(r) == r + 1 <= max_retries

\* A faulty backoff: the delay grows by the base each time.
RetryCountdown_Linear(r) == countdown_base * (r + 1)

\* countdown=60 * (2 ** self.request.retries)
RetryCountdown(r) == countdown_base * Pow2(r)

\* A faulty guard: a tenant in ERROR is let through as well.
PassesGuard_ErrorToo(t) == t.status \in {"PROVISIONING", "ERROR"}

\* if tenant.status != Tenant.TenantStatus.PROVISIONING: return
PassesGuard(t) == t.status = "PROVISIONING"

\* What ends the attempt before the deploy call, once the guard is passed:
\* RenderAPIClient() raises ValueError without RENDER_API_KEY;
\* get_blueprint_template raises FileNotFoundError for a missing file and
\* ValueError for invalid YAML.
SetupFailure ==
    IF ~apiKey THEN "ValueError"
    ELSE IF templateFile = "missing" THEN "Exception"
    ELSE IF templateFile = "malformed" THEN "ValueError"
    ELSE "none"

\* tenant = Tenant.objects.get(id=tenant_id) up to the deploy call
provision_start(j) ==
    /\ pc[j] = "queued"
    /\ IF row = NoRow
       THEN /\ TenantNotFound(j)
            /\ UNCHANGED tenant
       ELSE IF ~PassesGuard(row)
       THEN \* not in PROVISIONING status: return
            /\ pc' = [pc EXCEPT ![j] = "done"]
            /\ exc' = [exc EXCEPT ![j] = "none"]
            /\ UNCHANGED tenant
       ELSE /\ tenant' = [tenant EXCEPT ![j] = row]
            /\ IF SetupFailure = "none"
               THEN /\ pc' = [pc EXCEPT ![j] = "deploy"]
                    /\ exc' = [exc EXCEPT ![j] = "none"]
               ELSE /\ pc' = [pc EXCEPT ![j] = "except"]
                    /\ exc' = [exc EXCEPT ![j] = SetupFailure]
    /\ UNCHANGED <<template, results, view, row, slug, blueprint, apiKey, templateFile, live, deployments,
                   retries, countdown, deployment_data, deployCalls, todo,
                   deleted_count, deleteLog, service_statuses, queried>>

\* deployment_data = render_client.deploy_blueprint(customized_blueprint):
\* the platform accepts the blueprint and creates its resources
provision_deploy_ok(j) ==
    /\ pc[j] = "deploy"
    /\ deployments < MaxDeployments
    /\ LET data == DeploymentResult(
                       customize_blueprint_for_tenant(blueprint, slug),
                       deployments + 1)
       IN /\ deployment_data' = [deployment_data EXCEPT ![j] = data]
          /\ live' = live \cup ResultIds(data)
    /\ deployments' = deployments + 1
    /\ deployCalls' = [deployCalls EXCEPT ![j] = @ + 1]
    /\ pc' = [pc EXCEPT ![j] = "commit"]
    /\ UNCHANGED <<template, results, view, row, slug, blueprint, apiKey, templateFile, retries, countdown,
                   tenant, exc, todo,
                   deleted_count, deleteLog, service_statuses, queried>>

\* deploy_blueprint raises requests.RequestException (network or HTTP error)
provision_deploy_fail(j) ==
    /\ pc[j] = "deploy"
    /\ deployCalls' = [deployCalls EXCEPT ![j] = @ + 1]
    /\ pc' = [pc EXCEPT ![j] = "except"]
    /\ exc' = [exc EXCEPT ![j] = "Exception"]
    /\ UNCHANGED <<template, results, view, row, slug, blueprint, apiKey, templateFile, live, deployments,
                   retries, countdown, tenant, deployment_data, todo,
                   deleted_count, deleteLog, service_statuses, queried>>

\* Model.save(): UPDATE of every field by primary key, INSERT when no row
\* was updated.
Save(t) == t

\* tenant.render_service_ids = service_ids; tenant.status = ACTIVE;
\* tenant.save(); the atomic block commits
provision_commit(j) ==
    /\ pc[j] = "commit"
    /\ row' = Save([tenant[j] EXCEPT
                        !.render_service_ids = service_ids_of(deployment_data[j], slug),
                        !.status = "ACTIVE"])
    /\ pc' = [pc EXCEPT ![j] = "done"]
    /\ tenant' = [tenant EXCEPT ![j] = NoRow]
    /\ UNCHANGED <<template, results, view, slug, blueprint, apiKey, templateFile, live, deployments, retries,
                   countdown, deployment_data, exc, deployCalls, todo,
                   deleted_count, deleteLog, service_statuses, queried>>

\* A faulty handler: the tenant is saved without setting the status.
ErrorRecord_StatusKept(t) == t

\* tenant.status = Tenant.TenantStatus.ERROR on the instance just loaded
ErrorRecord(t) == [t EXCEPT !.status = "ERROR"]

\* A faulty handler: a configuration error is retried like any other failure.
AfterHandler_RetryAll(j) ==
    IF ~RetryAllowed(retries[j])
    THEN /\ pc' = [pc EXCEPT ![j] = "failed"]
         /\ UNCHANGED <<template, results, view, retries, countdown>>
    ELSE /\ pc' = [pc EXCEPT ![j] = "queued"]
         /\ retries' = [retries EXCEPT ![j] = @ + 1]
         /\ countdown' = [countdown EXCEPT ![j] = RetryCountdown(retries[j])]

\* What follows the handler's attempt to record ERROR: ValueError is
\* re-raised; any other exception goes to self.retry.
AfterHandler(j) ==
    IF exc[j] = "ValueError" \/ ~RetryAllowed(retries[j])
    THEN /\ pc' = [pc EXCEPT ![j] = "failed"]
         /\ UNCHANGED <<template, results, view, retries, countdown>>
    ELSE /\ pc' = [pc EXCEPT ![j] = "queued"]
         /\ retries' = [retries EXCEPT ![j] = @ + 1]
         /\ countdown' = [countdown EXCEPT ![j] = RetryCountdown(retries[j])]

\* except ValueError / except Exception: tenant = Tenant.objects.get(...);
\* Tenant.DoesNotExist is swallowed
provision_except_get(j) ==
    /\ pc[j] = "except"
    /\ IF row = NoRow
       THEN /\ AfterHandler(j)
            /\ UNCHANGED tenant
       ELSE /\ tenant' = [tenant EXCEPT ![j] = row]
            /\ pc' = [pc EXCEPT ![j] = "except_save"]
            /\ UNCHANGED <<template, results, view, retries, countdown>>
    /\ UNCHANGED <<template, results, view, row, slug, blueprint, apiKey, templateFile, live, deployments,
                   deployment_data, exc, deployCalls, todo,
                   deleted_count, deleteLog, service_statuses, queried>>

\* tenant.status = ERROR; tenant.save(); then raise or self.retry
provision_except_save(j) ==
    /\ pc[j] = "except_save"
    /\ row' = Save(ErrorRecord(tenant[j]))
    /\ AfterHandler(j)
    /\ tenant' = [tenant EXCEPT ![j] = NoRow]
    /\ UNCHANGED <<template, results, view, slug, blueprint, apiKey, templateFile, live, deployments,
                   deployment_data, exc, deployCalls, todo,
                   deleted_count, deleteLog, service_statuses, queried>>

provision_tenant_infrastructure(j) ==
    \/ provision_start(j)
    \/ provision_deploy_ok(j)
    \/ provision_deploy_fail(j)
    \/ provision_commit(j)
    \/ provision_except_get(j)
    \/ provision_except_save(j)

-----------------------------------------------------------------------------
(* cleanup_tenant_infrastructure *)

\* tenant = Tenant.objects.get(id=tenant_id); render_client = RenderAPIClient();
\* _delete_render_services returns at once when there are no service ids
cleanup_start(j) ==
    /\ pc[j] = "queued"
    /\ IF row = NoRow
       THEN /\ TenantNotFound(j)
            /\ UNCHANGED <<template, results, view, tenant, todo>>
       ELSE IF ~apiKey
       THEN \* RenderAPIClient() raises ValueError; except Exception: raise
            /\ pc' = [pc EXCEPT ![j] = "failed"]
            /\ exc' = [exc EXCEPT ![j] = "ValueError"]
            /\ UNCHANGED <<template, results, view, tenant, todo>>
       ELSE /\ tenant' = [tenant EXCEPT ![j] = row]
            /\ todo' = [todo EXCEPT ![j] = row.render_service_ids]
            /\ pc' = [pc EXCEPT ![j] =
                         IF row.render_service_ids = {} THEN "save" ELSE "deleting"]
            /\ UNCHANGED exc
    /\ UNCHANGED <<template, results, view, row, slug, blueprint, apiKey, templateFile, live, deployments,
                   retries, countdown, deployment_data, deployCalls, deleted_count, deleteLog,
                   service_statuses, queried>>

\* The loop of _delete_render_services moves on to the next pair, or ends.
LoopStep(j, p) ==
    /\ todo' = [todo EXCEPT ![j] = @ \ {p}]
    /\ pc' = [pc EXCEPT ![j] = IF todo[j] = {p} THEN "save" ELSE "deleting"]

\* one more delete call of job j, on resource id with the given answer
Logged(j, id, status_code) ==
    deleteLog' = [deleteLog EXCEPT ![j] = @ (+) SetToBag({<<id, status_code>>})]

\* render_client.delete_service(service_id) returns True; deleted_count += 1
cleanup_delete_ok(j) ==
    /\ pc[j] = "deleting"
    /\ \E p \in todo[j] : \E status_code \in DeleteResponses(p[2]) :
          /\ delete_service(status_code) = "True"
          /\ live' = live \ {p[2]}
          /\ Logged(j, p[2], status_code)
          /\ LoopStep(j, p)
    /\ deleted_count' = [deleted_count EXCEPT ![j] = @ + 1]
    /\ UNCHANGED <<template, results, view, row, slug, blueprint, apiKey, templateFile, deployments, retries,
                   countdown, tenant, deployment_data, exc, deployCalls,
                   service_statuses, queried>>

\* A faulty loop: the first failed delete ends the loop.
cleanup_delete_fail_Aborts(j) ==
    /\ pc[j] = "deleting"
    /\ \E p \in todo[j] : \E status_code \in DeleteResponses(p[2]) :
          /\ delete_service(status_code) = "raise"
          /\ Logged(j, p[2], status_code)
          /\ todo' = [todo EXCEPT ![j] = {}]
          /\ pc' = [pc EXCEPT ![j] = "save"]
    /\ UNCHANGED <<template, results, view, row, slug, blueprint, apiKey, templateFile, live, deployments,
                   retries, countdown, tenant, deployment_data, exc, deployCalls,
                   deleted_count, service_statuses, queried>>

\* delete_service raises; except Exception: the loop logs the failure and
\* goes on
cleanup_delete_fail(j) ==
    /\ pc[j] = "deleting"
    /\ \E p \in todo[j] : \E status_code \in DeleteResponses(p[2]) :
          /\ delete_service(status_code) = "raise"
          /\ Logged(j, p[2], status_code)
          /\ LoopStep(j, p)
    /\ UNCHANGED <<template, results, view, row, slug, blueprint, apiKey, templateFile, live, deployments,
                   retries, countdown, tenant, deployment_data, exc, deployCalls,
                   deleted_count, service_statuses, queried>>

\* A faulty commit: the service ids are kept.
CleanupRecord_IdsKept(t) == [t EXCEPT !.status = "SUSPENDED"]

\* tenant.status = SUSPENDED; tenant.render_service_ids = {}
CleanupRecord(t) == [t EXCEPT !.status = "SUSPENDED", !.render_service_ids = {}]

\* tenant.save() after _delete_render_services has returned
cleanup_save(j) ==
    /\ pc[j] = "save"
    /\ row' = Save(CleanupRecord(tenant[j]))
    /\ pc' = [pc EXCEPT ![j] = "done"]
    /\ tenant' = [tenant EXCEPT ![j] = NoRow]
    /\ UNCHANGED <<template, results, view, slug, blueprint, apiKey, templateFile, live, deployments, retries,
                   countdown, deployment_data, exc, deployCalls, todo,
                   deleted_count, deleteLog, service_statuses, queried>>

cleanup_tenant_infrastructure(j) ==
    \/ cleanup_start(j)
    \/ cleanup_delete_ok(j)
    \/ cleanup_delete_fail(j)
    \/ cleanup_save(j)

-----------------------------------------------------------------------------
(* check_tenant_service_status *)

\* tenant = Tenant.objects.get(id=tenant_id); return when there are no
\* service ids; render_client = RenderAPIClient(); service_statuses = {}
check_start(j) ==
    /\ pc[j] = "queued"
    /\ IF row = NoRow
       THEN /\ TenantNotFound(j)
            /\ UNCHANGED <<template, results, view, tenant, todo, service_statuses, queried>>
       ELSE IF row.render_service_ids = {}
       THEN \* No services to check: return
            /\ pc' = [pc EXCEPT ![j] = "done"]
            /\ tenant' = [tenant EXCEPT ![j] = row]
            /\ UNCHANGED <<template, results, view, exc, todo, service_statuses, queried>>
       ELSE IF ~apiKey
       THEN \* RenderAPIClient() raises ValueError; except Exception: raise
            /\ pc' = [pc EXCEPT ![j] = "failed"]
            /\ exc' = [exc EXCEPT ![j] = "ValueError"]
            /\ UNCHANGED <<template, results, view, tenant, todo, service_statuses, queried>>
       ELSE /\ tenant' = [tenant EXCEPT ![j] = row]
            /\ todo' = [todo EXCEPT ![j] = row.render_service_ids]
            /\ service_statuses' = [service_statuses EXCEPT ![j] = {}]
            /\ queried' = [queried EXCEPT ![j] = {}]
            /\ pc' = [pc EXCEPT ![j] = "querying"]
            /\ UNCHANGED exc
    /\ UNCHANGED <<template, results, view, row, slug, blueprint, apiKey, templateFile, live, deployments,
                   retries, countdown, deployment_data, deployCalls, deleted_count,
                   deleteLog>>

\* The loop of check_tenant_service_status moves on to the next pair, or the
\* task logs the snapshot and returns.
CheckLoopStep(j, p) ==
    /\ todo' = [todo EXCEPT ![j] = @ \ {p}]
    /\ queried' = [queried EXCEPT ![j] = @ \cup {p[2]}]
    /\ pc' = [pc EXCEPT ![j] = IF todo[j] = {p} THEN "done" ELSE "querying"]

\* status_info = render_client.get_service_status(service_id) is truthy:
\* service_statuses[service_name] = {...}
check_query_ok(j) ==
    /\ pc[j] = "querying"
    /\ \E p \in todo[j] : \E status_code \in StatusResponses(p[2]) :
          /\ get_service_status(status_code) # "None"
          /\ service_statuses' = [service_statuses EXCEPT ![j] =
                 DictSet(@, p[1], get_service_status(status_code))]
          /\ CheckLoopStep(j, p)
    /\ UNCHANGED <<template, results, view, row, slug, blueprint, apiKey, templateFile, live, deployments,
                   retries, countdown, tenant, deployment_data, exc, deployCalls,
                   deleted_count, deleteLog>>

\* A faulty check: a failed query marks the tenant as being in ERROR.
check_query_none_MarksError(j) ==
    /\ pc[j] = "querying"
    /\ \E p \in todo[j] : \E status_code \in StatusResponses(p[2]) :
          /\ get_service_status(status_code) = "None"
          /\ CheckLoopStep(j, p)
    /\ row' = Save(ErrorRecord(tenant[j]))
    /\ UNCHANGED <<template, results, view, slug, blueprint, apiKey, templateFile, live, deployments,
                   retries, countdown, tenant, deployment_data, exc, deployCalls,
                   deleted_count, deleteLog, service_statuses>>

\* status_info is None: nothing is stored for the service
check_query_none(j) ==
    /\ pc[j] = "querying"
    /\ \E p \in todo[j] : \E status_code \in StatusResponses(p[2]) :
          /\ get_service_status(status_code) = "None"
          /\ CheckLoopStep(j, p)
    /\ UNCHANGED <<template, results, view, row, slug, blueprint, apiKey, templateFile, live, deployments,
                   retries, countdown, tenant, deployment_data, exc, deployCalls,
                   deleted_count, deleteLog, service_statuses>>

check_tenant_service_status(j) ==
    \/ check_start(j)
    \/ check_query_ok(j)
    \/ check_query_none(j)

-----------------------------------------------------------------------------
(* The tenant API and the operator *)

\* DELETE /api/tenants/{id}/ (ModelViewSet.destroy)
DestroyTenant ==
    /\ row # NoRow
    /\ row' = NoRow
    /\ UNCHANGED <<template, results, view, slug, blueprint, apiKey, templateFile, live, deployments, pc,
                   retries, countdown, tenant, deployment_data, exc, deployCalls, todo,
                   deleted_count, deleteLog, service_statuses, queried>>

\* A tenant in ERROR is reset to PROVISIONING so that provisioning can run again
ResetToProvisioning ==
    /\ row # NoRow
    /\ row.status = "ERROR"
    /\ row' = [row EXCEPT !.status = "PROVISIONING"]
    /\ UNCHANGED <<template, results, view, slug, blueprint, apiKey, templateFile, live, deployments, pc,
                   retries, countdown, tenant, deployment_data, exc, deployCalls, todo,
                   deleted_count, deleteLog, service_statuses, queried>>

-----------------------------------------------------------------------------
\* the jobs of a provisioning run: two deliveries of the provisioning job
\* and one deprovisioning job
ProvisioningRun == ProvJobs \cup {"d1"}

Next ==
    \/ \E j \in ProvisioningRun : Deliver(j)
    \/ \E j \in ProvJobs : provision_tenant_infrastructure(j)
    \/ \E j \in CleanupJobs : cleanup_tenant_infrastructure(j)
    \/ DestroyTenant
    \/ ResetToProvisioning

Spec == Init /\ [][Next]_vars

\* The workers run every delivered job and every scheduled retry: a job that
\* can take a step eventually takes one.
FairSpec ==
    /\ Spec
    /\ \A j \in ProvJobs : WF_vars(provision_tenant_infrastructure(j))
    /\ \A j \in CleanupJobs : WF_vars(cleanup_tenant_infrastructure(j))

-----------------------------------------------------------------------------
(* customize_blueprint_for_tenant on a whole blueprint                     *)
(*                                                                         *)
(* A service is a dict: keys is the set of keys it has; envVars is a       *)
(* sequence of [key, value]; buildCommand is the sequence of commands      *)
(* joined by &&, empty for '' or a missing key.  databases is the sequence *)
(* of the database names.                                                  *)

\* '-backend'
backend_suffix == <<"-", "b", "a", "c", "k", "e", "n", "d">>
\* 'tenant-'
tenant_prefix == <<"t", "e", "n", "a", "n", "t", "-">>
\* '/app/custom-plugins'
custom_plugins_path ==
    <<"/", "a", "p", "p", "/", "c", "u", "s", "t", "o", "m", "-",
      "p", "l", "u", "g", "i", "n", "s">>
\* custom_plugin_repo is None
NoRepo == ""

\* {'key': 'TENANT_SLUG', ...}, {'key': 'TENANT_NAME', 'value': f"tenant-{tenant_slug}"}
TenantEnvVars(tenant_slug) ==
    << [key |-> "TENANT_SLUG", value |-> tenant_slug],
       [key |-> "TENANT_NAME", value |-> tenant_prefix \o tenant_slug] >>

\* {'key': 'CUSTOM_PLUGINS_PATH', 'value': '/app/custom-plugins'}
PluginEnvVar == [key |-> "CUSTOM_PLUGINS_PATH", value |-> custom_plugins_path]

\* plugin_setup = f"git clone {custom_plugin_repo} /app/custom-plugins && "
plugin_setup(custom_plugin_repo) == [cmd |-> "git clone", repo |-> custom_plugin_repo]

\* The plugin test made on the name the template gave.
IsBackend_TemplateName(template_name, customized_name) ==
    EndsWith(template_name, backend_suffix)

\* service.get('name', '').endswith('-backend'), evaluated in the third loop,
\* after the first loop has suffixed the name
IsBackend(template_name, customized_name) ==
    EndsWith(customized_name, backend_suffix)

\* Every service is treated as having the envVars key.
HasEnvVars_Always(service) == TRUE

\* 'envVars' in service
HasEnvVars(service) == "envVars" \in service.keys

\* What the three loops of customize_blueprint_for_tenant do to one service
customize_service(service, tenant_slug, custom_plugin_repo) ==
    LET named == IF "name" \in service.keys
                 THEN [service EXCEPT !.name = SuffixedName(@, tenant_slug)]
                 ELSE service
        web == named.type = "web" /\ HasEnvVars(named)
        extended == IF web
                    THEN [named EXCEPT
                             !.keys = @ \cup {"envVars"},
                             !.envVars = @ \o TenantEnvVars(tenant_slug)]
                    ELSE named
        plugin == /\ web
                  /\ custom_plugin_repo # NoRepo
                  /\ IsBackend(service.name, extended.name)
                  /\ extended.buildCommand # << >>
    IN IF plugin
       THEN [extended EXCEPT
                !.buildCommand = <<plugin_setup(custom_plugin_repo)>> \o @,
                !.envVars = @ \o <<PluginEnvVar>>]
       ELSE extended

\* the blueprint customize_blueprint_for_tenant returns
customized_blueprint(bp, tenant_slug, custom_plugin_repo) ==
    [services |-> [i \in DOMAIN bp.services |->
                      customize_service(bp.services[i], tenant_slug, custom_plugin_repo)],
     databases |-> [i \in DOMAIN bp.databases |->
                      SuffixedName(bp.databases[i], tenant_slug)]]

\* A faulty customizer: the loops run on the blueprint that was passed in.
TemplateAfter_InPlace(bp, returned) == returned

\* customized_blueprint = yaml.safe_load(yaml.dump(blueprint)): the loops run
\* on a new object, the blueprint passed in keeps its value
TemplateAfter(bp, returned) == bp

\* customize calls made in one behaviour
MaxCustomizeCalls == 2

\* one call of customize_blueprint_for_tenant on the shared template
Customize(tenant_slug, custom_plugin_repo) ==
    /\ Len(results) < MaxCustomizeCalls
    /\ LET returned == customized_blueprint(template, tenant_slug, custom_plugin_repo)
       IN /\ results' = Append(results, [tenant_slug |-> tenant_slug,
                                         custom_plugin_repo |-> custom_plugin_repo,
                                         returned |-> returned])
          /\ template' = TemplateAfter(template, returned)
    /\ UNCHANGED <<view, row, slug, blueprint, apiKey, templateFile, live, deployments,
                   pc, retries, countdown, tenant, deployment_data, exc, deployCalls,
                   todo, deleted_count, deleteLog, service_statuses, queried>>

\* Blueprints, slugs and plugin repositories the customizer is run on
CustomizeNames == {<<"a">>, <<"a", "-", "b">>, <<"a">> \o backend_suffix}
CustomizeSlugs == {<<"b">>, <<"b", "-", "b">>, <<"b", "a", "c", "k", "e", "n", "d">>}
Repos == {NoRepo, "https://x/y.git"}
Services ==
    [keys : {{"name", "type"}, {"name", "type", "envVars"}},
     name : CustomizeNames,
     type : {"web", "worker"},
     envVars : {<< >>},
     buildCommand : {<< >>, <<[cmd |-> "build", repo |-> NoRepo]>>}]
Templates ==
    [services : {ss \in Services \X Services : ss[1].name # ss[2].name},
     databases : {<< >>, << <<"a", "-", "b">> >>}]

CustomizeInit ==
    /\ template \in Templates
    /\ results = << >>
    /\ view = NoRequest
    /\ row = NoRow
    /\ slug = <<"b">>
    /\ blueprint = <<<<"a">>, <<"b">>>>
    /\ apiKey = TRUE
    /\ templateFile = "ok"
    /\ NothingRun

CustomizeNext ==
    \E tenant_slug \in CustomizeSlugs : \E custom_plugin_repo \in Repos :
        Customize(tenant_slug, custom_plugin_repo)

CustomizeSpec == CustomizeInit /\ [][CustomizeNext]_vars

-----------------------------------------------------------------------------
(* TenantViewSet.create                                                    *)
(*                                                                         *)
(* The row inserted inside transaction.atomic() is held in view.inserted   *)
(* and becomes the committed row, the one the workers read, when the block *)
(* is left.                                                                *)

\* the provisioning job the creation request hands over
created_job == "p1"

\* the request is answered 400 (name missing or too short, name or slug
\* taken) or the serializer rejects the data: no tenant is created
create_reject ==
    /\ view.pc = "request"
    /\ view' = [view EXCEPT !.pc = "rejected"]
    /\ UNCHANGED <<template, results, row, slug, blueprint, apiKey, templateFile,
                   live, deployments, pc, retries, countdown, tenant, deployment_data,
                   exc, deployCalls, todo, deleted_count, deleteLog, service_statuses,
                   queried>>

\* with transaction.atomic(): tenant = serializer.save() with status
\* PROVISIONING and render_service_ids {}
create_insert ==
    /\ view.pc = "request"
    /\ view' = [pc |-> "inserted",
                inserted |-> [status |-> "PROVISIONING", render_service_ids |-> {}]]
    /\ UNCHANGED <<template, results, row, slug, blueprint, apiKey, templateFile,
                   live, deployments, pc, retries, countdown, tenant, deployment_data,
                   exc, deployCalls, todo, deleted_count, deleteLog, service_statuses,
                   queried>>

\* _trigger_infrastructure_provisioning: provision_tenant_infrastructure
\* .delay(tenant.id) puts the job on the queue, still inside the atomic block
create_trigger ==
    /\ view.pc = "inserted"
    /\ view' = [view EXCEPT !.pc = "triggered"]
    /\ pc' = [pc EXCEPT ![created_job] = "queued"]
    /\ UNCHANGED <<template, results, row, slug, blueprint, apiKey, templateFile,
                   live, deployments, retries, countdown, tenant, deployment_data,
                   exc, deployCalls, todo, deleted_count, deleteLog, service_statuses,
                   queried>>

\* .delay raises (the broker cannot be reached): except Exception logs the
\* failure and the creation goes on
create_trigger_fail ==
    /\ view.pc = "inserted"
    /\ view' = [view EXCEPT !.pc = "triggered"]
    /\ UNCHANGED <<template, results, row, slug, blueprint, apiKey, templateFile,
                   live, deployments, pc, retries, countdown, tenant, deployment_data,
                   exc, deployCalls, todo, deleted_count, deleteLog, service_statuses,
                   queried>>

\* return Response(..., 201) leaves the atomic block: the insert commits
create_commit ==
    /\ view.pc = "triggered"
    /\ view' = [view EXCEPT !.pc = "committed"]
    /\ row' = view.inserted
    /\ UNCHANGED <<template, results, slug, blueprint, apiKey, templateFile,
                   live, deployments, pc, retries, countdown, tenant, deployment_data,
                   exc, deployCalls, todo, deleted_count, deleteLog, service_statuses,
                   queried>>

create ==
    \/ create_reject
    \/ create_insert
    \/ create_trigger
    \/ create_trigger_fail
    \/ create_commit

\* a creation request has arrived and no tenant exists yet
CreateInit ==
    /\ row = NoRow
    /\ view = [pc |-> "request", inserted |-> NoRow]
    /\ template = NoTemplate
    /\ results = << >>
    /\ slug \in SlugPool
    /\ blueprint \in Blueprints
    /\ apiKey \in BOOLEAN
    /\ templateFile \in {"ok", "missing", "malformed"}
    /\ (~apiKey => templateFile = "ok")
    /\ NothingRun

CreateNext ==
    \/ create
    \/ provision_tenant_infrastructure(created_job)

CreateSpec == CreateInit /\ [][CreateNext]_vars

\* The request handler runs to its end and the queue runs the job it was
\* handed.
CreateFairSpec ==
    /\ CreateSpec
    /\ WF_vars(create)
    /\ WF_vars(provision_tenant_infrastructure(created_job))

\* The jobs of a teardown: one provisioning job, the deprovisioning job
\* delivered twice and a status check, while tenants can be deleted.
TeardownRun == {"p1"} \cup CleanupJobs \cup CheckJobs

TeardownNext ==
    \/ \E j \in TeardownRun : Deliver(j)
    \/ provision_tenant_infrastructure("p1")
    \/ \E j \in CleanupJobs : cleanup_tenant_infrastructure(j)
    \/ \E j \in CheckJobs : check_tenant_service_status(j)
    \/ DestroyTenant

TeardownSpec == Init /\ [][TeardownNext]_vars

-----------------------------------------------------------------------------
(* Vocabulary of the properties *)

\* job j is inside the transaction.atomic() block, past the status guard
InTransaction(j) == pc[j] \in {"deploy", "commit"}

\* job j has returned or raised
Finished(j) == pc[j] \in {"done", "failed"}

\* the step is a step of job j
StepOf(j) == pc'[j] # pc[j]

\* executions of the task body that job j has started
Started(j) ==
    IF pc[j] = "idle" THEN 0
    ELSE IF pc[j] = "queued" THEN retries[j]
    ELSE retries[j] + 1

\* the returned name with the -{slug} suffix removed
CanonicalName(name, tenant_slug) ==
    IF EndsWith(name, <<"-">> \o tenant_slug)
    THEN SubSeq(name, 1, Len(name) - Len(tenant_slug) - 1)
    ELSE name

\* canonical service name -> platform id, one entry per resource
CanonicalMapping(data, tenant_slug) ==
    {<<CanonicalName(data[i].name, tenant_slug), data[i].id>> : i \in 1..Len(data)}

-----------------------------------------------------------------------------
(* C1: the status guard and the commit are one atomic read-modify-write:   *)
(* two provisioning jobs of the same tenant are never both past the guard  *)
(* and before their commit at the same time, so at most one of them        *)
(* deploys and writes the service ids.                                     *)
C1_GuardAndCommitAtomic ==
    \A j1 \in ProvJobs : \A j2 \in ProvJobs \ {j1} :
        ~(InTransaction(j1) /\ InTransaction(j2))

(* C2: an execution of provision that finds the tenant in a status other   *)
(* than PROVISIONING returns without a deploy call and leaves the row, the *)
(* platform and the retry state as they are.                               *)
C2_GuardIsNoOp ==
    [][\A j \in ProvJobs :
          (pc[j] = "queued" /\ StepOf(j) /\ row # NoRow /\ row.status # "PROVISIONING")
          => /\ pc'[j] = "done"
             /\ row' = row
             /\ deployCalls' = deployCalls
             /\ live' = live
             /\ retries' = retries]_vars

\* a second delivery returned at the guard of a tenant the first made ACTIVE
C2_Witness ==
    \E j1 \in ProvJobs : \E j2 \in ProvJobs \ {j1} :
        /\ pc[j1] = "done" /\ deployCalls[j1] = 1
        /\ pc[j2] = "done" /\ deployCalls[j2] = 0 /\ retries[j2] = 0
        /\ row.status = "ACTIVE"
        /\ row.render_service_ids # {}

(* C3: the commit of a successful deploy sets, in one step, status ACTIVE  *)
(* and the service ids to exactly the mapping canonical name -> id, one    *)
(* entry per resource of the deployment result.                            *)
C3_CommitExactMapping ==
    [][\A j \in ProvJobs :
          (pc[j] = "commit" /\ pc'[j] = "done")
          => /\ row'.status = "ACTIVE"
             /\ row'.render_service_ids = CanonicalMapping(deployment_data[j], slug)]_vars

(* C4: in every reachable state the service ids are non-empty only when    *)
(* the status is ACTIVE.                                                   *)
C4_IdsOnlyWhenActive ==
    row.render_service_ids # {} => row.status = "ACTIVE"

(* C5: a provisioning job whose deploy call failed and that returns        *)
(* normally after at least one retry, with no other job and no deletion    *)
(* interfering, has deployed again and left the tenant ACTIVE.             *)
C5_RetryPromotes ==
    \A j \in ProvJobs :
        ( /\ pc[j] = "done" /\ retries[j] >= 1 /\ deployCalls[j] >= 1
          /\ \A k \in Jobs \ {j} : pc[k] = "idle"
          /\ row # NoRow )
        => row.status = "ACTIVE"

(* C6: a finished provisioning job all of whose deploy calls failed, with  *)
(* a valid configuration and no other job interfering, has made exactly 3  *)
(* deploy calls and left the tenant in ERROR.                              *)
C6_ThreeDeployCalls ==
    \A j \in ProvJobs :
        ( /\ Finished(j) /\ deployCalls[j] >= 1 /\ deployment_data[j] = NoData
          /\ \A k \in Jobs \ {j} : pc[k] = "idle"
          /\ row # NoRow )
        => /\ deployCalls[j] = 3
           /\ row.status = "ERROR"

(* C7: no step takes the tenant from PROVISIONING directly to SUSPENDED.   *)
C7_NoProvisioningToSuspended ==
    [][~(row.status = "PROVISIONING" /\ row'.status = "SUSPENDED")]_vars

(* C8: no step of a provisioning job changes the status or the service ids *)
(* of a tenant that is ACTIVE.                                             *)
C8_ActiveUntouchedByProvision ==
    [][\A j \in ProvJobs : (row.status = "ACTIVE" /\ StepOf(j)) => row' = row]_vars

C10_ErrorRecorded ==
    [][\A j \in ProvJobs :
          (pc[j] \in {"except", "except_save"} /\ pc'[j] \in {"queued", "failed"})
          => /\ row' = NoRow \/ row'.status = "ERROR"
             /\ row' = NoRow => row = NoRow
             /\ exc'[j] = exc[j] /\ exc[j] \in {"ValueError", "Exception"}
             /\ (pc'[j] = "failed" /\ exc[j] = "Exception") => retries[j] = max_retries]_vars

\* a deploy call has failed, ERROR is recorded and the first retry is scheduled
C10_Witness ==
    \E j \in ProvJobs :
        /\ pc[j] = "queued" /\ retries[j] = 1 /\ deployCalls[j] = 1
        /\ exc[j] = "Exception" /\ countdown[j] = countdown_base
        /\ row.status = "ERROR"

(* C11: a configuration error of a provisioning attempt (the credential is *)
(* missing when the client is constructed, or the template cannot be       *)
(* parsed) is fatal: when its handler ends the job has failed in its first *)
(* execution with no retry scheduled and no deploy call made, the tenant   *)
(* is in ERROR unless its row has vanished, and without the credential no  *)
(* job has made any platform call.                                         *)
C11_ConfigurationErrorFatal ==
    [][\A j \in ProvJobs :
          ( /\ pc[j] \in {"except", "except_save"} /\ exc[j] = "ValueError"
            /\ pc'[j] \notin {"except", "except_save"} )
          => /\ pc'[j] = "failed" /\ exc'[j] = "ValueError"
             /\ retries'[j] = 0 /\ countdown'[j] = 0
             /\ deployCalls'[j] = 0
             /\ row' = NoRow \/ row'.status = "ERROR"
             /\ ~apiKey => /\ \A k \in ProvJobs : deployCalls'[k] = 0
                           /\ \A k \in CleanupJobs : deleteLog'[k] = EmptyBag
                           /\ live' = {} /\ deployments' = 0]_vars

\* without the credential a job has failed in its first execution and the
\* tenant is in ERROR
C11_Witness ==
    \E j \in ProvJobs :
        /\ ~apiKey /\ pc[j] = "failed" /\ exc[j] = "ValueError"
        /\ retries[j] = 0 /\ deployCalls[j] = 0
        /\ row.status = "ERROR"

\* delete calls job j has made on resource id, whatever the answer
DeleteCallsOn(j, id) ==
    CopiesIn(<<id, 204>>, deleteLog[j]) + CopiesIn(<<id, 404>>, deleteLog[j])
        + CopiesIn(<<id, 500>>, deleteLog[j])

(* C12: when the delete loop of a deprovisioning job is over, the job has  *)
(* issued exactly one delete call for every (name, id) pair of the service *)
(* ids it loaded and no other call, whichever of the calls failed.         *)
C12_OneDeleteCallPerPair ==
    \A j \in CleanupJobs :
        pc[j] = "save"
        => /\ \A p \in tenant[j].render_service_ids : DeleteCallsOn(j, p[2]) = 1
           /\ BagCardinality(deleteLog[j]) = Cardinality(tenant[j].render_service_ids)

\* the loop is over two pairs: one delete failed, the other succeeded
C12_Witness ==
    \E j \in CleanupJobs :
        /\ pc[j] = "save"
        /\ Cardinality(tenant[j].render_service_ids) = 2
        /\ deleted_count[j] = 1
        /\ \E p \in tenant[j].render_service_ids : CopiesIn(<<p[2], 500>>, deleteLog[j]) = 1

(* C13: a deprovisioning job that has entered its delete loop never raises *)
(* out of it, and the step that follows the loop commits the tenant with   *)
(* status SUSPENDED and no service ids, however many deletes failed.       *)
C13_SuspendedAfterLoop ==
    [][\A j \in CleanupJobs :
          /\ (pc[j] \in {"deleting", "save"} /\ StepOf(j))
             => pc'[j] \in {"deleting", "save", "done"}
          /\ (pc[j] = "save" /\ StepOf(j))
             => /\ pc'[j] = "done"
                /\ row' = [status |-> "SUSPENDED", render_service_ids |-> {}]]_vars

\* both deletes of a job failed, the resources still exist, and the tenant
\* is SUSPENDED with no service ids
C13_Witness ==
    \E j \in CleanupJobs :
        /\ pc[j] = "done"
        /\ BagCardinality(deleteLog[j]) = 2 /\ deleted_count[j] = 0
        /\ live # {}
        /\ row = [status |-> "SUSPENDED", render_service_ids |-> {}]

(* C14: a deprovisioning job that loads a tenant with no service ids       *)
(* raises no error and issues no delete call, whatever the tenant's        *)
(* status.                                                                 *)
C14_EmptyIdsSucceeds ==
    [][\A j \in CleanupJobs :
          ( /\ pc[j] = "queued" /\ StepOf(j)
            /\ row # NoRow /\ row.render_service_ids = {} )
          => /\ pc'[j] \notin {"failed", "deleting"}
             /\ exc'[j] = "none"
             /\ deleteLog' = deleteLog]_vars

(* C15: a delete call that the platform answers with 404 does not raise:   *)
(* the deprovisioning job counts the resource as deleted and goes on with  *)
(* its loop, so a resource id deleted a second time succeeds again.        *)
C15_NotFoundCountsAsDeleted ==
    [][\A j \in CleanupJobs : \A p \in todo[j] :
          ( /\ pc[j] = "deleting" /\ StepOf(j)
            /\ CopiesIn(<<p[2], 404>>, deleteLog'[j]) = CopiesIn(<<p[2], 404>>, deleteLog[j]) + 1 )
          => /\ deleted_count'[j] = deleted_count[j] + 1
             /\ pc'[j] \in {"deleting", "save"}
             /\ exc'[j] = "none"
             /\ p \notin todo'[j]]_vars

\* one job has deleted a resource; the other job's only delete call so far
\* was on the same id, was answered 404 and is counted as deleted
C15_Witness ==
    \E j \in CleanupJobs : \E k \in CleanupJobs \ {j} : \E id \in 1..(2 * MaxDeployments) :
        /\ CopiesIn(<<id, 204>>, deleteLog[j]) = 1
        /\ CopiesIn(<<id, 404>>, deleteLog[k]) = 1
        /\ BagCardinality(deleteLog[k]) = 1
        /\ deleted_count[k] = 1

(* C16: when the deprovisioning job is delivered twice, a run that         *)
(* completes after the other has started or completed leaves the tenant    *)
(* SUSPENDED with no service ids, as a single run does; and a run that     *)
(* starts after the other has completed, on the tenant as that run left    *)
(* it, goes to its commit without a delete call.                           *)
C16_DuplicateDeprovision ==
    [][\A j \in CleanupJobs : \A k \in CleanupJobs \ {j} :
          /\ (pc[j] = "save" /\ StepOf(j) /\ pc[k] \in {"deleting", "save", "done"})
             => row' = [status |-> "SUSPENDED", render_service_ids |-> {}]
          /\ (pc[j] = "queued" /\ StepOf(j) /\ pc[k] = "done"
                /\ row # NoRow /\ row.status = "SUSPENDED")
             => /\ pc'[j] = "save"
                /\ todo'[j] = {}
                /\ deleteLog' = deleteLog]_vars

\* the first run has deleted resources and completed; the second run has
\* loaded the SUSPENDED tenant and is at its commit without a delete call
C16_Witness ==
    \E j \in CleanupJobs : \E k \in CleanupJobs \ {j} :
        /\ pc[j] = "done" /\ deleted_count[j] >= 1
        /\ pc[k] = "save" /\ tenant[k].status = "SUSPENDED"
        /\ deleteLog[k] = EmptyBag
        /\ row = [status |-> "SUSPENDED", render_service_ids |-> {}]

\* both runs have completed after deleting the same resources, the second
\* of them answered 404
C16_WitnessInterleaved ==
    \E j \in CleanupJobs : \E k \in CleanupJobs \ {j} :
        /\ pc[j] = "done" /\ pc[k] = "done"
        /\ deleted_count[j] = 2 /\ deleted_count[k] = 2
        /\ row = [status |-> "SUSPENDED", render_service_ids |-> {}]

(* C17: a provisioning, deprovisioning or status check job that starts     *)
(* when no row exists for the tenant id raises Tenant.DoesNotExist: it     *)
(* makes no platform call, schedules no retry and writes no row.           *)
C17_TenantNotFoundRaised ==
    [][\A j \in Jobs :
          (pc[j] = "queued" /\ StepOf(j) /\ row = NoRow)
          => /\ pc'[j] = "failed" /\ exc'[j] = "DoesNotExist"
             /\ row' = NoRow
             /\ live' = live /\ deployments' = deployments
             /\ deployCalls' = deployCalls
             /\ deleteLog' = deleteLog
             /\ queried' = queried /\ service_statuses' = service_statuses
             /\ retries' = retries /\ countdown' = countdown]_vars

\* a job of each kind has raised Tenant.DoesNotExist on the deleted tenant
C17_Witness ==
    /\ row = NoRow
    /\ \E p \in ProvJobs : pc[p] = "failed" /\ exc[p] = "DoesNotExist" /\ retries[p] = 0
    /\ \E d \in CleanupJobs : pc[d] = "failed" /\ exc[d] = "DoesNotExist"
    /\ \E c \in CheckJobs : pc[c] = "failed" /\ exc[c] = "DoesNotExist"

(* C18: no step of a status check job changes the tenant row: status and   *)
(* service ids are after the step what they were before it, whether the    *)
(* queries succeed or fail and whatever the other jobs are doing.          *)
C18_CheckStatusReadOnly ==
    [][\A j \in CheckJobs : StepOf(j) => row' = row]_vars

\* a status check of an ACTIVE tenant has returned after a failed query
C18_Witness ==
    \E j \in CheckJobs :
        /\ pc[j] = "done"
        /\ queried[j] # {}
        /\ Cardinality(service_statuses[j]) < Cardinality(queried[j])
        /\ row.status = "ACTIVE" /\ row = tenant[j]

(* C19: when a status check returns, its snapshot has one entry for every  *)
(* entry of the service ids it loaded, every one of them was queried, and  *)
(* a service whose query failed is recorded as "unknown".                  *)
C19_SnapshotComplete ==
    \A j \in CheckJobs :
        (pc[j] = "done" /\ tenant[j] # NoRow)
        => /\ {p[1] : p \in service_statuses[j]} = {p[1] : p \in tenant[j].render_service_ids}
           /\ queried[j] = {p[2] : p \in tenant[j].render_service_ids}
           /\ \A p \in service_statuses[j] : p[2] \in {"live", "unknown"}

(* C20: service naming round-trips: for every service of the template,     *)
(* the name the deployment returns for it is the template name followed by *)
(* -slug, and stripping the suffix as the extraction does gives back the   *)
(* template name, which is the key the service id is to be stored under.   *)
C20_NamingRoundTrip ==
    \A j \in ProvJobs :
        pc[j] = "commit"
        => \A i \in 1..Len(blueprint) :
              /\ deployment_data[j][i].name = SuffixedName(blueprint[i], slug)
              /\ original_name(deployment_data[j][i].name, slug) = blueprint[i]
              /\ <<blueprint[i], deployment_data[j][i].id>>
                     \in service_ids_of(deployment_data[j], slug)

\* the service and database names of a blueprint
BlueprintNames(bp) ==
    {bp.services[i].name : i \in DOMAIN bp.services}
        \cup {bp.databases[i] : i \in DOMAIN bp.databases}

(* C21: the blueprints that customize returns for two distinct slugs, from *)
(* the same template, have no service or database name in common.          *)
C21_NamesDisjointAcrossSlugs ==
    \A m \in DOMAIN results : \A n \in DOMAIN results :
        results[m].tenant_slug # results[n].tenant_slug
        => BlueprintNames(results[m].returned) \cap BlueprintNames(results[n].returned) = {}

\* 'backend'
backend_word == Tail(backend_suffix)

\* number of environment variables of a service with the given key
EnvVarCount(service, key) ==
    Cardinality({k \in DOMAIN service.envVars : service.envVars[k].key = key})

(* C22: with a plugin repository, customize changes exactly the web        *)
(* service whose template name ends with backend (taken here with envVars  *)
(* and a build command): its build command becomes the checkout step       *)
(* followed by the original one and it gets exactly one                    *)
(* CUSTOM_PLUGINS_PATH variable; a service that is not web or whose        *)
(* template name does not end with backend keeps its build command and     *)
(* gets no such variable.  Without a repository no build command changes.  *)
C22_PluginInjection ==
    \A n \in DOMAIN results : \A i \in DOMAIN template.services :
        LET service == template.services[i]
            customized == results[n].returned.services[i]
            repo == results[n].custom_plugin_repo
            backend == service.type = "web" /\ EndsWith(service.name, backend_word)
        IN /\ (repo # NoRepo /\ backend /\ HasEnvVars(service) /\ service.buildCommand # << >>)
              => /\ customized.buildCommand = <<plugin_setup(repo)>> \o service.buildCommand
                 /\ EnvVarCount(customized, "CUSTOM_PLUGINS_PATH") = 1
           /\ (repo = NoRepo \/ ~backend)
              => /\ customized.buildCommand = service.buildCommand
                 /\ EnvVarCount(customized, "CUSTOM_PLUGINS_PATH") = 0

HasEnvVar(service, key, value) ==
    \E k \in DOMAIN service.envVars :
        service.envVars[k] = [key |-> key, value |-> value]

(* C24: in the blueprint customize returns for slug s, every service of    *)
(* type web has TENANT_SLUG = s and TENANT_NAME = tenant-s, and a service  *)
(* of another type has neither variable.                                   *)
C24_TenantEnvVarsOnWeb ==
    \A n \in DOMAIN results : \A i \in DOMAIN template.services :
        LET customized == results[n].returned.services[i]
            s == results[n].tenant_slug
        IN IF template.services[i].type = "web"
           THEN /\ HasEnvVar(customized, "TENANT_SLUG", s)
                /\ HasEnvVar(customized, "TENANT_NAME", tenant_prefix \o s)
           ELSE /\ EnvVarCount(customized, "TENANT_SLUG") = 0
                /\ EnvVarCount(customized, "TENANT_NAME") = 0

(* C25: the delay of a retry is 60 * 2^k after k earlier retries: 60 for   *)
(* the first retry, 120 for the second, 240 for the third, each the double *)
(* of the one before.                                                      *)
C25_ExponentialBackoff ==
    [][\A j \in ProvJobs :
          retries'[j] = retries[j] + 1
          => /\ retries[j] \in 0..2
             /\ countdown'[j] = <<60, 120, 240>>[retries[j] + 1]
             /\ countdown'[j] = 60 * Pow2(retries[j])
             /\ retries[j] >= 1 => countdown'[j] = 2 * countdown[j]]_vars

\* the third retry of a job has been scheduled, 240 after 60 and 120
C25_Witness ==
    \E j \in ProvJobs :
        pc[j] = "queued" /\ retries[j] = 3 /\ countdown[j] = 240

(* C26: the tenant row is deleted only when its service ids are empty.     *)
C26_DeleteOnlyWhenNoServices ==
    [][(row # NoRow /\ row' = NoRow) => row.render_service_ids = {}]_vars

\* the resource ids the tenant row records
RecordedIds(t) == {p[2] : p \in t.render_service_ids}

(* C27: every resource id that a committed deployment returned is recorded *)
(* in the tenant's service ids unless a delete call has been issued for    *)
(* it.  Stated for the runs with a single provisioning job, a deployment   *)
(* whose services all have their own key, and the tenant row in place.     *)
C27_NoResourceLostTrackOf ==
    \A j \in ProvJobs :
        ( /\ pc[j] = "done" /\ deployment_data[j] # NoData
          /\ \A k \in ProvJobs \ {j} : pc[k] = "idle"
          /\ Cardinality(service_ids_of(deployment_data[j], slug)) = Len(deployment_data[j])
          /\ row # NoRow )
        => \A id \in ResultIds(deployment_data[j]) :
              \/ id \in RecordedIds(row)
              \/ \E d \in CleanupJobs : DeleteCallsOn(d, id) >= 1

(* C28: the provisioning job that a creation request hands over finds the  *)
(* committed tenant row when it starts, and every tenant a creation        *)
(* request has committed eventually leaves PROVISIONING for ACTIVE or      *)
(* ERROR.                                                                  *)
C28_CreatedEventuallyProvisioned ==
    /\ [][(pc[created_job] = "queued" /\ StepOf(created_job)) => row # NoRow]_vars
    /\ (view.pc = "committed") ~> (row.status \in {"ACTIVE", "ERROR"})

====
